---- MODULE Spec2Model ----
(***************************************************************************)
(* Model of pyrelatics2: the OAuth2 token cache of ClientCredential and    *)
(* the calls get_result / run_import of RelaticsWebservices                *)
(* (src/pyrelatics_webservices/client.py), and the response parsers        *)
(* ExportResult.from_suds / ImportResult.from_suds                         *)
(* (src/pyrelatics2/result_classes.py).                                    *)
(***************************************************************************)
EXTENDS Integers, Sequences, FiniteSets, TLC

VARIABLES
    now,            \* datetime.datetime.now(), in whole seconds
    tokens,         \* ClientCredential.tokens: hostname -> {token, expires_on}
    issued,         \* number of POSTs made to TOKEN_PATH so far
    last,           \* the latest call on the credential object and what it did
    ticks,          \* number of times the clock has moved
    pc,             \* position of the parser call: "start" or "done"
    raw,            \* the response tree as handed to from_suds
    suds_response,  \* the same object, as from_suds leaves it
    result,         \* the ExportResult / ImportResult (or the exception raised)
    calls,          \* the calls on RelaticsWebservices: arguments, position, locals
    fs,             \* the directory of temporary files: path -> file
    files           \* the contents of the files ever created, by file number

vars ==
    <<now, tokens, issued, last, ticks, pc, raw, suds_response, result,
      calls, fs, files>>

(***************************************************************************)
(* Bounds of the model.                                                    *)
(***************************************************************************)
MaxTicks == 2
MaxRequests == 3

(***************************************************************************)
(* ClientCredential                                                        *)
(***************************************************************************)
Hostnames == {"h1", "h2"}

\* the margin get_token compares the remaining validity with
SafetyMargin == 300

\* datetime.timedelta normalises to (days, seconds, microseconds) with
\* 0 <= seconds < 86400
SecondsPerDay == 86400

\* how far the clock moves between two calls
TickSteps == {3400, 43200}

\* the lifetimes (expires_in) the provider returns
ExpiresInValues == {3600, 86500}

\* the empty dict
EmptyDict == [k \in {} |-> 0]

\* the JSON objects the token endpoint answers with (json.loads gives a dict);
\* access_token is the token the provider issues in this answer
TokenResponses(access_token) ==
    { [k \in {"access_token", "expires_in"} |->
          IF k = "access_token" THEN access_token ELSE e] : e \in ExpiresInValues }
    \cup
    { [k \in {"access_token"} |-> access_token],
      [k \in {"error", "error_description"} |-> 0],
      [k \in {"error"} |-> 0],
      [k \in {"error", "error_description", "access_token", "expires_in"} |->
          IF k = "access_token" THEN access_token
          ELSE IF k = "expires_in" THEN 3600 ELSE 0],
      EmptyDict }

\* timedelta.seconds: the seconds field of the normalised timedelta, the days
\* field is dropped
TimedeltaSeconds(delta) == delta % SecondsPerDay

\* the if of get_token: TRUE when retrieve_token is called
NeedsRetrieve(hostname, force_refresh) ==
    IF force_refresh THEN TRUE
    ELSE IF hostname \notin DOMAIN tokens THEN TRUE
    ELSE TimedeltaSeconds(tokens[hostname].expires_on - now) <= SafetyMargin

\* how retrieve_token ends on a response
RetrieveOutcome(response) ==
    IF "error" \in DOMAIN response
    THEN IF "error_description" \in DOMAIN response
         THEN "RuntimeError" ELSE "KeyError"
    ELSE IF "access_token" \notin DOMAIN response THEN "KeyError"
    ELSE IF "expires_in" \notin DOMAIN response THEN "KeyError"
    ELSE "returned"

\* a mutated retrieve_token that stores an entry before it looks at the answer
StoreBeforeCheck(hostname, response, requested_on) ==
    (hostname :> [token |-> IF "access_token" \in DOMAIN response
                            THEN response["access_token"] ELSE 0,
                  expires_on |-> requested_on]) @@ tokens

\* self.tokens after retrieve_token
TokensAfterRetrieve(hostname, response, requested_on) ==
    IF RetrieveOutcome(response) = "returned"
    THEN (hostname :> [token |-> response["access_token"],
                       expires_on |-> requested_on + response["expires_in"]])
         @@ tokens
    ELSE tokens

\* the record of a call: what was asked, whether a token request was made,
\* the answer, how the call ended and the cache it started from
Call(op, hostname, force_refresh, requested, response, outcome, returned) ==
    [op |-> op, hostname |-> hostname, force_refresh |-> force_refresh,
     requested |-> requested, response |-> response, called_on |-> now,
     outcome |-> outcome, returned |-> returned, tokens_before |-> tokens]

NoCall ==
    [op |-> "none", hostname |-> "h1", force_refresh |-> FALSE,
     requested |-> FALSE, response |-> EmptyDict, called_on |-> 0,
     outcome |-> "none", returned |-> 0, tokens_before |-> EmptyDict]

InitCred ==
    /\ now = 0
    /\ tokens = EmptyDict
    /\ issued = 0
    /\ ticks = 0
    /\ last = NoCall

\* no call on RelaticsWebservices is made
InitDispatchIdle ==
    /\ calls = EmptyDict
    /\ fs = EmptyDict
    /\ files = << >>

InitParseIdle ==
    /\ pc = "idle"
    /\ raw = EmptyDict
    /\ suds_response = EmptyDict
    /\ result = EmptyDict

\* time passes between two calls
Tick ==
    /\ ticks < MaxTicks
    /\ \E d \in TickSteps : now' = now + d
    /\ ticks' = ticks + 1
    /\ UNCHANGED <<tokens, issued, last, pc, raw, suds_response, result,
                 calls, fs, files>>

\* ClientCredential.retrieve_token(hostname), called directly
RetrieveToken ==
    /\ issued < MaxRequests
    /\ \E hostname \in Hostnames, response \in TokenResponses(issued + 1) :
        /\ tokens' = TokensAfterRetrieve(hostname, response, now)
        /\ last' = Call("retrieve_token", hostname, FALSE, TRUE, response,
                        RetrieveOutcome(response), 0)
    /\ issued' = issued + 1
    /\ UNCHANGED <<now, ticks, pc, raw, suds_response, result,
                 calls, fs, files>>

\* ClientCredential.get_token(hostname, force_refresh) when it reuses the entry
GetTokenCached ==
    /\ \E hostname \in Hostnames :
        /\ ~NeedsRetrieve(hostname, FALSE)
        /\ last' = Call("get_token", hostname, FALSE, FALSE, EmptyDict,
                        "returned", tokens[hostname].token)
    /\ UNCHANGED <<now, tokens, issued, ticks, pc, raw, suds_response, result,
                 calls, fs, files>>

\* ClientCredential.get_token(hostname, force_refresh) when it calls
\* retrieve_token first; an exception of retrieve_token leaves get_token
GetTokenRetrieve ==
    /\ issued < MaxRequests
    /\ \E hostname \in Hostnames, force_refresh \in BOOLEAN,
          response \in TokenResponses(issued + 1) :
        /\ NeedsRetrieve(hostname, force_refresh)
        /\ tokens' = TokensAfterRetrieve(hostname, response, now)
        /\ last' = Call("get_token", hostname, force_refresh, TRUE, response,
                        RetrieveOutcome(response),
                        IF RetrieveOutcome(response) = "returned"
                        THEN tokens'[hostname].token ELSE 0)
    /\ issued' = issued + 1
    /\ UNCHANGED <<now, ticks, pc, raw, suds_response, result,
                 calls, fs, files>>

NextCred == Tick \/ RetrieveToken \/ GetTokenCached \/ GetTokenRetrieve

Init == InitCred /\ InitParseIdle /\ InitDispatchIdle

Next == NextCred

\* the credential manager: calls of get_token and retrieve_token on one
\* ClientCredential, with time passing between them
Spec == Init /\ [][Next]_vars

(***************************************************************************)
(* Python values of the response parsers                                   *)
(*                                                                         *)
(* Every value the parsers inspect carries its type.  A suds object is its *)
(* attribute dict: hasattr is membership in the dict's keys.               *)
(***************************************************************************)
NoneValue == [type |-> "NoneType"]
Obj(attrs) == [type |-> "Object", attrs |-> attrs]
Str(s) == [type |-> "str", val |-> s]
Bool(b) == [type |-> "bool", val |-> b]

\* what dataclasses.field(...) returns.  BaseResult is no dataclass, so its
\* has_error and error_msg stay class attributes holding this object
FieldObject == [type |-> "Field"]

\* a suds.sax.text.Text node holding the base64 text of a zip archive with
\* these entries (filename, bytes), in the order of the archive's directory;
\* wellformed is FALSE for text that is no base64 of a zip archive
Text(entries, wellformed) ==
    [type |-> "Text", entries |-> entries, wellformed |-> wellformed]

\* hasattr(value, name)
HasAttr(value, name) ==
    IF value.type = "Object" THEN name \in DOMAIN value.attrs ELSE FALSE

\* value.name
GetAttr(value, name) == value.attrs[name]

\* value with value.name = x
SetAttr(value, name, x) == Obj((name :> x) @@ value.attrs)

\* del value.name
DelAttr(value, name) ==
    Obj([a \in DOMAIN value.attrs \ {name} |-> value.attrs[a]])

\* bool(value) of the values has_error can hold: a bool is itself, any other
\* object without __bool__ or __len__ is true
Truthy(value) == IF value.type = "bool" THEN value.val ELSE TRUE

\* repr(value): "None" for None, for an object a text made from the object
Repr(value) ==
    IF value.type = "NoneType" THEN Str("None")
    ELSE [type |-> "str", repr_of |-> value]

\* the outcome of a call: the value returned, or the exception raised
Returned(value) == [outcome |-> "returned", value |-> value]
Raised(exception) == [outcome |-> exception, value |-> NoneValue]

(***************************************************************************)
(* BaseResult                                                              *)
(***************************************************************************)
\* BaseResult.handle_suds_response_errors(self, suds_response): the result
\* object afterwards, or the TypeError of repr() called without an argument
HandleSudsResponseErrors(self, response) ==
    LET r1 == IF response.type = "NoneType"
              THEN [self EXCEPT !.has_error = Bool(TRUE), !.error_msg = Str("")]
              ELSE self
    IN  IF HasAttr(response, "Export")
        THEN IF HasAttr(GetAttr(response, "Export"), "_Error")
             THEN Returned([r1 EXCEPT
                      !.has_error = Bool(TRUE),
                      !.error_msg = GetAttr(GetAttr(response, "Export"), "_Error")])
             ELSE Raised("TypeError")
        ELSE Returned(r1)

\* __bool__ of ExportResult and of ImportResult
ResultBool(self) == ~Truthy(self.has_error)

(***************************************************************************)
(* ExportResult                                                            *)
(***************************************************************************)
MaxEntries == 2

Filenames == {"a.txt", "b.txt"}
FileBytes == {"hello", "world"}

RECURSIVE SeqsUpTo(_, _)
\* the sequences over S of length at most n
SeqsUpTo(S, n) ==
    IF n = 0 THEN { << >> }
    ELSE LET shorter == SeqsUpTo(S, n - 1)
         IN  shorter \cup { Append(q, x) : q \in shorter, x \in S }

\* the archives a Documents node may hold
Archives == SeqsUpTo([filename : Filenames, bytes : FileBytes], MaxEntries)

\* what the Export field of a response may be
ExportChoices ==
    { EmptyDict,
      "Export" :> Obj(EmptyDict),
      "Export" :> Obj("_Error" :> Str("boom")) }

\* what the Report field of a response may be
ReportChoices ==
    { EmptyDict }
    \cup { "Report" :> Obj(o) : o \in {EmptyDict, "Other" :> Str("x")} }
    \cup { "Report" :> Obj(o @@ ("Documents" :> d)) :
              o \in {EmptyDict, "Other" :> Str("x")},
              d \in { Obj(EmptyDict), Text(<< >>, FALSE) }
                    \cup { Text(z, TRUE) : z \in Archives } }

\* the responses handed to ExportResult.from_suds
ExportResponses ==
    { NoneValue }
    \cup { Obj(e @@ r @@ i) : e \in ExportChoices, r \in ReportChoices,
                              i \in { EmptyDict, "Import" :> Obj(EmptyDict) } }

\* ExportResult(): has_error and error_msg are the class attributes of
\* BaseResult, data is not set, documents is an empty dict
NewExportResult ==
    [has_error |-> FieldObject, error_msg |-> FieldObject,
     documents |-> EmptyDict]

\* ZipFile.filelist: the entries in directory order
ZipFilelist(text) == text.entries

\* a mutated read that takes the first entry of that name
ZipReadFirst(text, filename) ==
    LET i == CHOOSE j \in 1..Len(text.entries) :
                 /\ text.entries[j].filename = filename
                 /\ \A k \in 1..(j - 1) : text.entries[k].filename # filename
    IN  text.entries[i].bytes

\* ZipFile.read(filename): NameToInfo keeps, for a name, the last entry of
\* the directory with that name
ZipRead(text, filename) ==
    LET i == CHOOSE j \in 1..Len(text.entries) :
                 /\ text.entries[j].filename = filename
                 /\ \A k \in (j + 1)..Len(text.entries) :
                        text.entries[k].filename # filename
    IN  text.entries[i].bytes

\* the loop over docs_zip.filelist filling result.documents
ReadDocuments(text) ==
    [f \in { ZipFilelist(text)[j].filename : j \in 1..Len(ZipFilelist(text)) } |->
        ZipRead(text, f)]

\* whether from_suds takes the documents branch
HasInlineDocuments(response) ==
    IF HasAttr(response, "Report")
    THEN IF HasAttr(GetAttr(response, "Report"), "Documents")
         THEN GetAttr(GetAttr(response, "Report"), "Documents").type = "Text"
         ELSE FALSE
    ELSE FALSE

\* del suds_response.Report.Documents
DelDocuments(response) ==
    SetAttr(response, "Report", DelAttr(GetAttr(response, "Report"), "Documents"))

\* ExportResult.from_suds(suds_response): the outcome and the response object
\* as the call leaves it
ExportFromSudsResult(response) ==
    LET handled == HandleSudsResponseErrors(NewExportResult, response)
        r1 == handled.value
        docs == GetAttr(GetAttr(response, "Report"), "Documents")
        r2 == IF HasInlineDocuments(response)
              THEN [r1 EXCEPT !.has_error = Bool(FALSE),
                              !.documents = ReadDocuments(docs)]
              ELSE r1
        tree == IF HasInlineDocuments(response)
                THEN DelDocuments(response) ELSE response
        r3 == [has_error |-> r2.has_error, error_msg |-> r2.error_msg,
               documents |-> r2.documents, data |-> tree]
        r4 == IF ~HasAttr(tree, "Export") /\ ~HasAttr(tree, "Report")
              THEN [r3 EXCEPT !.has_error = Bool(TRUE),
                              !.error_msg = Repr(tree)]
              ELSE r3
    IN  IF handled.outcome # "returned"
        THEN [call |-> handled, tree |-> response]
        ELSE IF HasInlineDocuments(response) /\ ~docs.wellformed
        THEN [call |-> Raised("BadZipFile"), tree |-> response]
        ELSE [call |-> Returned(r4), tree |-> tree]

NotCalled == [outcome |-> "none", value |-> NoneValue]

InitExport ==
    /\ InitCred
    /\ InitDispatchIdle
    /\ pc = "start"
    /\ raw \in ExportResponses
    /\ suds_response = raw
    /\ result = NotCalled

\* the call ExportResult.from_suds(suds_response)
ExportFromSuds ==
    /\ pc = "start"
    /\ result' = ExportFromSudsResult(suds_response).call
    /\ suds_response' = ExportFromSudsResult(suds_response).tree
    /\ pc' = "done"
    /\ UNCHANGED <<now, tokens, issued, last, ticks, raw,
                 calls, fs, files>>

NextExport == ExportFromSuds

\* the export parser: one call of ExportResult.from_suds on each response
SpecExport == InitExport /\ [][NextExport]_vars

(***************************************************************************)
(* ImportResult                                                            *)
(***************************************************************************)
MaxMessages == 3

\* texts are sequences of characters
ProcessingRow == <<"P", "r", "o", "c", "e", "s", "s", "i", "n", "g", " ", "r", "o", "w", " ", ":">>
TotalRowsImported == <<"T", "o", "t", "a", "l", " ", "r", "o", "w", "s", " ", "i", "m", "p", "o", "r", "t", "e", "d", ":">>
TotalTime == <<"T", "o", "t", "a", "l", " ", "t", "i", "m", "e", " ", "(", "m", "s", ")", ":">>

\* sub in text
Contains(sub, text) ==
    \E i \in 0..(Len(text) - Len(sub)) : SubSeq(text, i + 1, i + Len(sub)) = sub

\* text[start:]
SliceFrom(text, start) == SubSeq(text, start + 1, Len(text))

Digits == {"0", "1", "2", "3", "4", "5", "6", "7", "8", "9"}

DigitValue(c) ==
    CASE c = "0" -> 0 [] c = "1" -> 1 [] c = "2" -> 2 [] c = "3" -> 3
      [] c = "4" -> 4 [] c = "5" -> 5 [] c = "6" -> 6 [] c = "7" -> 7
      [] c = "8" -> 8 [] c = "9" -> 9

RECURSIVE DecimalValue(_)
\* the number a sequence of digits writes
DecimalValue(digits) ==
    IF digits = << >> THEN 0
    ELSE 10 * DecimalValue(SubSeq(digits, 1, Len(digits) - 1))
         + DigitValue(digits[Len(digits)])

RECURSIVE Strip(_)
\* text.strip() for blanks
Strip(text) ==
    IF text = << >> THEN text
    ELSE IF text[1] = " " THEN Strip(Tail(text))
    ELSE IF text[Len(text)] = " " THEN Strip(SubSeq(text, 1, Len(text) - 1))
    ELSE text

\* int(text): blanks around the number are dropped, a sign may lead, the rest
\* must be digits, at least one; anything else is a ValueError
PyInt(text) ==
    LET t == Strip(text)
        signed == t # << >> /\ t[1] \in {"+", "-"}
        body == IF signed THEN Tail(t) ELSE t
    IN  IF body # << >> /\ \A i \in 1..Len(body) : body[i] \in Digits
        THEN Returned(IF signed /\ t[1] = "-"
                      THEN 0 - DecimalValue(body) ELSE DecimalValue(body))
        ELSE Raised("ValueError")

\* datetime.timedelta(milliseconds=ms), normalised
Timedelta(ms) ==
    [days |-> ms \div (1000 * SecondsPerDay),
     seconds |-> (ms \div 1000) % SecondsPerDay,
     microseconds |-> (ms % 1000) * 1000]

\* datetime.time.fromisoformat(text) of an HH:MM:SS text
FromIsoFormat(text) ==
    IF /\ Len(text) = 8
       /\ text[3] = ":" /\ text[6] = ":"
       /\ \A i \in {1, 2, 4, 5, 7, 8} : text[i] \in Digits
       /\ DecimalValue(SubSeq(text, 1, 2)) < 24
       /\ DecimalValue(SubSeq(text, 4, 5)) < 60
       /\ DecimalValue(SubSeq(text, 7, 8)) < 60
    THEN Returned([hour |-> DecimalValue(SubSeq(text, 1, 2)),
                   minute |-> DecimalValue(SubSeq(text, 4, 5)),
                   second |-> DecimalValue(SubSeq(text, 7, 8))])
    ELSE Raised("ValueError")

\* the message nodes of a response: _Result, value and _Time
MessageNode(status, text) ==
    [_Result |-> status, value |-> text, _Time |-> <<"1", "0", ":", "0", "0", ":", "0", "0">>]

MessageNodes ==
    { MessageNode("Progress", <<"P", "r", "o", "c", "e", "s", "s", "i", "n", "g", " ", "r", "o", "w", " ", ":", " ", "0", "0", "0", "0", "1">>),
      MessageNode("Progress", <<"P", "r", "o", "c", "e", "s", "s", "i", "n", "g", " ", "r", "o", "w", " ", ":", " ", "0", "0", "0", "0", "2">>),
      MessageNode("Progress", <<"P", "r", "o", "c", "e", "s", "s", "i", "n", "g", " ", "r", "o", "w", " ", ":", " ", "a", "b">>),
      MessageNode("Progress", <<"x", "P", "r", "o", "c", "e", "s", "s", "i", "n", "g", " ", "r", "o", "w", " ", ":", " ", "0", "0", "0", "0", "4">>),
      MessageNode("Error", <<"P", "r", "o", "c", "e", "s", "s", "i", "n", "g", " ", "r", "o", "w", " ", ":", " ", "0", "0", "0", "0", "7">>),
      MessageNode("Success", <<"o", "k">>),
      MessageNode("Progress", <<"T", "o", "t", "a", "l", " ", "r", "o", "w", "s", " ", "i", "m", "p", "o", "r", "t", "e", "d", ":", " ", "2">>),
      MessageNode("Progress", <<"T", "o", "t", "a", "l", " ", "t", "i", "m", "e", " ", "(", "m", "s", ")", ":", " ", "1", "5", "0", "0">>) }

\* the element nodes of a response: _Action, _ID and _ForeignKey
ElementNode(action, id) == [_Action |-> action, _ID |-> id, _ForeignKey |-> "fk"]

\* what the Elements field of Import may be: a list of groups
ElementsChoices ==
    { EmptyDict,
      "Elements" :> << >>,
      "Elements" :> << <<ElementNode("Add", "id1"), ElementNode("Update", "id2")>> >>,
      "Elements" :> << <<ElementNode("Add", "id1")>>, <<ElementNode("Update", "id3")>> >> }

\* what the Message field of Import may be
MessageChoices ==
    { EmptyDict } \cup { "Message" :> m : m \in SeqsUpTo(MessageNodes, MaxMessages) }

\* the responses handed to ImportResult.from_suds
ImportResponses ==
    { NoneValue }
    \cup { Obj(e @@ r) : e \in ExportChoices,
                         r \in { EmptyDict, "Report" :> Obj(EmptyDict) } }
    \cup { Obj(e @@ ("Import" :> Obj(m @@ el))) :
              e \in ExportChoices, m \in MessageChoices, el \in ElementsChoices }

\* ImportResult(): has_error and error_msg are the class attributes of
\* BaseResult
NewImportResult ==
    [has_error |-> FieldObject, error_msg |-> FieldObject,
     messages |-> << >>, elements |-> << >>,
     total_rows |-> NoneValue, elapsed_time |-> NoneValue]

\* the loop state of the message loop
LoopStart(self) == [raised |-> "none", row |-> 0, self |-> self]

\* a mutated row update that keeps the row
RowKept(row, msg) == Returned(row)

\* a mutated row update that does not look at the status of the message
RowAnyStatus(row, msg) ==
    IF Contains(ProcessingRow, msg.value)
    THEN PyInt(SliceFrom(msg.value, 17))
    ELSE Returned(row)

\* the row in effect once msg has been looked at: int(msg.value[17:]) for a
\* Progress message holding "Processing row :", the row before otherwise
RowAfter(row, msg) ==
    IF msg._Result = "Progress" /\ Contains(ProcessingRow, msg.value)
    THEN PyInt(SliceFrom(msg.value, 17))
    ELSE Returned(row)

\* the totals a Progress message sets in the result
TotalsAfter(self, msg) ==
    IF msg._Result # "Progress" \/ Contains(ProcessingRow, msg.value)
    THEN Returned(self)
    ELSE IF Contains(TotalRowsImported, msg.value)
    THEN LET n == PyInt(SliceFrom(msg.value, 21))
         IN  IF n.outcome = "returned"
             THEN Returned([self EXCEPT !.total_rows = n.value]) ELSE n
    ELSE IF Contains(TotalTime, msg.value)
    THEN LET n == PyInt(SliceFrom(msg.value, 17))
         IN  IF n.outcome = "returned"
             THEN Returned([self EXCEPT !.elapsed_time = Timedelta(n.value)])
             ELSE n
    ELSE Returned(self)

\* ImportMessage(time=msg._Time, status=msg._Result, message=msg.value, row=row)
\* with its __post_init__
NewImportMessage(msg, row) ==
    LET t == FromIsoFormat(msg._Time)
    IN  IF t.outcome = "returned"
        THEN Returned([time |-> t.value, status |-> msg._Result,
                       message |-> msg.value, row |-> row])
        ELSE t

\* one pass of the body of the message loop
MessageStep(loop, msg) ==
    LET row == RowAfter(loop.row, msg)
        totals == TotalsAfter(loop.self, msg)
        made == NewImportMessage(msg, row.value)
    IN  IF row.outcome # "returned"
        THEN [loop EXCEPT !.raised = row.outcome]
        ELSE IF totals.outcome # "returned"
        THEN [loop EXCEPT !.raised = totals.outcome]
        ELSE IF made.outcome # "returned"
        THEN [loop EXCEPT !.raised = made.outcome]
        ELSE [raised |-> "none", row |-> row.value,
              self |-> [totals.value EXCEPT
                           !.messages = Append(@, made.value)]]

RECURSIVE MessageLoop(_, _)
\* for msg in suds_response.Import.Message
MessageLoop(loop, msgs) ==
    IF msgs = << >> \/ loop.raised # "none" THEN loop
    ELSE MessageLoop(MessageStep(loop, Head(msgs)), Tail(msgs))

\* ImportElement(action=elem._Action, id=elem._ID, foreign_key=elem._ForeignKey)
NewImportElement(elem) ==
    [action |-> elem._Action, id |-> elem._ID, foreign_key |-> elem._ForeignKey]

\* the loop over suds_response.Import.Elements[0]
ReadElements(import) ==
    IF HasAttr(import, "Elements")
    THEN IF Len(GetAttr(import, "Elements")) > 0
         THEN [i \in 1..Len(GetAttr(import, "Elements")[1]) |->
                  NewImportElement(GetAttr(import, "Elements")[1][i])]
         ELSE << >>
    ELSE << >>

\* ImportResult.from_suds(suds_response)
ImportFromSudsResult(response) ==
    LET handled == HandleSudsResponseErrors(NewImportResult, response)
        r1 == handled.value
        import == GetAttr(response, "Import")
        r2 == [r1 EXCEPT !.has_error = Bool(FALSE)]
        loop == IF HasAttr(import, "Message")
                THEN MessageLoop(LoopStart(r2), GetAttr(import, "Message"))
                ELSE LoopStart(r2)
        r3 == [loop.self EXCEPT !.elements = ReadElements(import)]
    IN  IF handled.outcome # "returned" THEN handled
        ELSE IF HasAttr(response, "Import")
        THEN IF loop.raised # "none" THEN Raised(loop.raised) ELSE Returned(r3)
        ELSE IF ~HasAttr(response, "Export")
        THEN Returned([r1 EXCEPT !.has_error = Bool(TRUE),
                                 !.error_msg = Repr(response)])
        ELSE Returned(r1)

InitImport ==
    /\ InitCred
    /\ InitDispatchIdle
    /\ pc = "start"
    /\ raw \in ImportResponses
    /\ suds_response = raw
    /\ result = NotCalled

\* the call ImportResult.from_suds(suds_response)
ImportFromSuds ==
    /\ pc = "start"
    /\ result' = ImportFromSudsResult(suds_response)
    /\ pc' = "done"
    /\ UNCHANGED <<now, tokens, issued, last, ticks, raw, suds_response,
                 calls, fs, files>>

NextImport == ImportFromSuds

\* the import parser: one call of ImportResult.from_suds on each response
SpecImport == InitImport /\ [][NextImport]_vars

(***************************************************************************)
(* RelaticsWebservices: paths and values                                   *)
(***************************************************************************)
MaxDocuments == 2

\* a list value
List(items) == [type |-> "list", items |-> items]

\* a value that is neither a str nor a list
IntValue == [type |-> "int", val |-> 5]

\* a ClientCredential passed as authentication
CredentialObject == [type |-> "ClientCredential"]

\* text.rfind(c), counted from 1; 0 when c is not in text
LastIndexOf(c, text) ==
    IF \E i \in 1..Len(text) : text[i] = c
    THEN CHOOSE i \in 1..Len(text) :
             text[i] = c /\ \A j \in (i + 1)..Len(text) : text[j] # c
    ELSE 0

\* os.path.split(path)[1]
PathTail(path) == SubSeq(path, LastIndexOf("/", path) + 1, Len(path))

\* os.path.splitext(path): the split is at the last dot of the last
\* component, unless only dots lead up to it
SplitExt(path) ==
    LET sep == LastIndexOf("/", path)
        dot == LastIndexOf(".", path)
    IN  IF dot > sep /\ \E k \in (sep + 1)..(dot - 1) : path[k] # "."
        THEN <<SubSeq(path, 1, dot - 1), SubSeq(path, dot, Len(path))>>
        ELSE <<path, << >> >>

\* os.path.join(head, tail)
PathJoin(head, tail) ==
    IF tail # << >> /\ tail[1] = "/" THEN tail
    ELSE IF head = << >> \/ head[Len(head)] = "/" THEN head \o tail
    ELSE head \o <<"/">> \o tail

SUPPORTED_EXTENSIONS ==
    { <<"x", "l", "s", "x">>, <<"x", "l", "s", "m">>, <<"x", "l", "s", "b">>, <<"x", "l", "s">>, <<"c", "s", "v">> }

IMPORT_BASENAME == <<"p", "y", "r", "e", "l", "a", "t", "i", "c", "s", "_", "w", "e", "b", "s", "e", "r", "v", "i", "c", "e">>

\* tempfile.gettempdir()
TempDir == <<"/", "t", "m", "p">>

\* the files of the caller that exist, and paths of the caller that do not
DocumentA == <<"i", "/", "a", ".", "p", "d", "f">>
DocumentB == <<"i", "/", "b", ".", "p", "d", "f">>
MissingDocument == <<"i", "/", "m", ".", "p", "d", "f">>
DataFile == <<"i", "/", "d", ".", "c", "s", "v">>
MissingDataFile == <<"i", "/", "m", ".", "c", "s", "v">>
UserFiles == { DocumentA, DocumentB, DataFile }

\* the bytes of a file of the caller
UserBytes(path) == [file |-> path]

\* the Document built from the rows: an Import root with a Row per record,
\* the record's keys as attributes
BuildXml(rows) ==
    [root |-> "Import",
     rows |-> [i \in 1..Len(rows) |-> [tag |-> "Row", attrs |-> rows[i]]]]

\* doc.str()
XmlText(doc) == [xml |-> doc]

\* base64.b64encode(bytes).decode("utf-8")
B64Encode(bytes) == [type |-> "str", b64 |-> bytes]

\* the rows given as data by the caller who
RowsOf(who) == << [name |-> who] >>

(***************************************************************************)
(* RelaticsWebservices: the calls                                          *)
(***************************************************************************)
\* a call before its first step
NewCall(op, args) ==
    [op |-> op, args |-> args,
     pc |-> IF op = "run_import" THEN "validate"
            ELSE IF op = "get_result" THEN "client"
            ELSE IF op = "retrieve_token" THEN "token" ELSE "off",
     net |-> << >>, outcome |-> "none",
     file_extension |-> NoneValue, file_basename |-> NoneValue,
     doc |-> NoneValue, zip_path |-> NoneValue, zip |-> 0,
     zip_entries |-> << >>, next_document |-> 1,
     data_str |-> NoneValue, token |-> NoneValue, sent |-> NoneValue]

\* the threads of the caller
Threads == {1, 2}

\* a thread that makes no call
Off == NewCall("none", EmptyDict)

\* the call ends: it returns or raises
Finish(call, outcome) == [call EXCEPT !.pc = "done", !.outcome = outcome]

\* a mutated client that repeats every round trip once
RoundTripTwice(net, kind) == net \o <<kind, kind>>

\* one more blocking round trip: the WSDL fetch of Client(url), the POST of
\* retrieve_token or the SOAP call
RoundTrip(net, kind) == Append(net, kind)

\* the arguments run_import is called with
RunImportArgs ==
    [operation_name : { Str(<< >>), Str(<<"o", "p">>) },
     data : { List(<< >>), Str(<< >>), List(RowsOf("caller")), Str(DataFile),
              Str(MissingDataFile), Str(DocumentA), IntValue },
     authentication : { NoneValue, Str(<<"c", "o", "d", "e">>), CredentialObject },
     file_name : { NoneValue, Str(<<"d", "/", "n", ".", "x">>) },
     documents : { NoneValue }
                 \cup { List(d) : d \in SeqsUpTo({DocumentA, MissingDocument},
                                                 MaxDocuments) },
     keep_zip_file : BOOLEAN]

\* the arguments get_result is called with
GetResultArgs ==
    [operation_name : { Str(<<"o", "p">>) },
     parameters : { NoneValue, [type |-> "dict", items |-> [p |-> "v"]] },
     authentication : { NoneValue, Str(<<"c", "o", "d", "e">>), CredentialObject }]

\* the hostname of the RelaticsWebservices object
ServiceHostname == "h1"

\* a cache holding a token for the hostname that is valid for an hour
CachedToken == ServiceHostname :> [token |-> 0, expires_on |-> 3600]

\* one call of get_result, run_import or retrieve_token, made with or without
\* a cached token
InitDispatch ==
    /\ now = 0
    /\ issued = 0
    /\ ticks = 0
    /\ last = NoCall
    /\ InitParseIdle
    /\ tokens \in { EmptyDict, CachedToken }
    /\ fs = EmptyDict
    /\ files = << >>
    /\ \E call \in { NewCall("run_import", a) : a \in RunImportArgs }
                   \cup { NewCall("get_result", a) : a \in GetResultArgs }
                   \cup { NewCall("retrieve_token", [hostname |-> ServiceHostname]) } :
          calls = [t \in Threads |-> IF t = 1 THEN call ELSE Off]

\* what no step of a call touches: the clock and the parser call
idleVars == <<now, ticks, pc, raw, suds_response, result>>

\* a mutated check that looks at the operation name only
ValidationFailsNameOnly(args) == args.operation_name = Str(<< >>)

\* the check of the mandatory arguments: operation_name == "" or not data
ValidationFails(args) ==
    \/ args.operation_name = Str(<< >>)
    \/ args.data.type = "NoneType"
    \/ args.data.type = "str" /\ args.data.val = << >>
    \/ args.data.type = "list" /\ args.data.items = << >>

\* run_import: the basic check of the mandatory arguments
Validate(self) ==
    /\ calls[self].pc = "validate"
    /\ calls' = [calls EXCEPT ![self] =
                    IF ValidationFails(@.args)
                    THEN Finish(@, "ValueError")
                    ELSE [@ EXCEPT !.pc = "client"]]
    /\ UNCHANGED <<tokens, issued, last, fs, files>>
    /\ UNCHANGED idleVars

\* client = Client(self.wsdl_url): the WSDL is fetched, or the fetch fails
MakeClient(self) ==
    /\ calls[self].pc = "client"
    /\ \E ok \in BOOLEAN :
        calls' = [calls EXCEPT ![self] =
                    IF ok
                    THEN [@ EXCEPT !.net = RoundTrip(@, "wsdl"),
                                   !.pc = IF calls[self].op = "run_import"
                                          THEN "prepare" ELSE "auth"]
                    ELSE Finish([@ EXCEPT !.net = RoundTrip(@, "wsdl")],
                                "TransportError")]
    /\ UNCHANGED <<tokens, issued, last, fs, files>>
    /\ UNCHANGED idleVars

\* the text after the dot of the extension: os.path.splitext(data)[1][1:]
ExtensionOf(path) ==
    LET ext == SplitExt(path)[2]
    IN  IF ext = << >> THEN << >> ELSE SubSeq(ext, 2, Len(ext))

\* the name without path and extension that the payload is sent under
FileBasename(file_name) ==
    IF file_name = NoneValue THEN IMPORT_BASENAME
    ELSE SplitExt(PathTail(file_name.val))[1]

\* run_import: the data part and the filename are prepared
PrepareData(self) ==
    /\ calls[self].pc = "prepare"
    /\ LET call == calls[self]
           args == call.args
           next == IF args.documents # NoneValue THEN "zip_open" ELSE "encode_plain"
           named == [call EXCEPT !.file_basename = FileBasename(args.file_name),
                                 !.pc = next]
       IN  calls' = [calls EXCEPT ![self] =
               IF args.data.type = "list"
               THEN [named EXCEPT !.file_extension = <<"x", "m", "l">>,
                                  !.doc = BuildXml(args.data.items)]
               ELSE IF args.data.type = "str"
               THEN IF ExtensionOf(args.data.val) \notin SUPPORTED_EXTENSIONS
                    THEN Finish([call EXCEPT !.file_extension =
                                                 ExtensionOf(args.data.val)],
                                "TypeError")
                    ELSE [named EXCEPT !.file_extension = ExtensionOf(args.data.val)]
               ELSE Finish(call, "TypeError")]
    /\ UNCHANGED <<tokens, issued, last, fs, files>>
    /\ UNCHANGED idleVars

\* a file right after it is created or truncated
EmptyFile == [entries |-> << >>, writers |-> {}]

\* the file after the ZipFile object of who has written its entries to it:
\* each ZipFile object writes at its own offset, so the bytes are those of
\* one writer only when no other object wrote since the file was truncated
Written(file, entries, who) ==
    [entries |-> entries, writers |-> file.writers \cup {who}]

\* zipfile.ZipFile(import_zip_path, "w"): the file at the fixed path in the
\* temporary directory is created, or truncated when it exists
ZipOpen(self) ==
    /\ calls[self].pc = "zip_open"
    /\ LET path == PathJoin(TempDir, calls[self].file_basename \o <<".", "z", "i", "p">>)
           n == IF path \in DOMAIN fs THEN fs[path] ELSE Len(files) + 1
       IN  /\ fs' = (path :> n) @@ fs
           /\ files' = IF path \in DOMAIN fs
                       THEN [files EXCEPT ![n] = EmptyFile]
                       ELSE Append(files, EmptyFile)
           /\ calls' = [calls EXCEPT ![self] =
                           [@ EXCEPT !.zip_path = path, !.zip = n,
                                     !.pc = "zip_documents"]]
    /\ UNCHANGED <<tokens, issued, last>>
    /\ UNCHANGED idleVars

\* import_zip.write(filename=document_path, arcname=archive_name) for the next
\* document; a missing document raises out of the with block, which closes
\* the archive and leaves the file where it is
ZipAddDocument(self) ==
    /\ calls[self].pc = "zip_documents"
    /\ calls[self].next_document <= Len(calls[self].args.documents.items)
    /\ LET call == calls[self]
           document_path == call.args.documents.items[call.next_document]
           archive_name == PathJoin(<<"D", "o", "c", "u", "m", "e", "n", "t", "s">>,
                                    PathTail(document_path))
           entries == Append(call.zip_entries,
                             [arcname |-> archive_name,
                              data |-> UserBytes(document_path)])
       IN  IF document_path \in UserFiles
           THEN /\ calls' = [calls EXCEPT ![self] =
                               [@ EXCEPT !.zip_entries = entries,
                                         !.next_document = @ + 1]]
                /\ files' = [files EXCEPT ![call.zip] = Written(@, entries, self)]
           ELSE /\ calls' = [calls EXCEPT ![self] = Finish(@, "FileNotFoundError")]
                /\ files' = [files EXCEPT ![call.zip] =
                                Written(@, call.zip_entries, self)]
    /\ UNCHANGED <<tokens, issued, last, fs>>
    /\ UNCHANGED idleVars

\* the data file is added and the with block closes the archive
ZipAddData(self) ==
    /\ calls[self].pc = "zip_documents"
    /\ calls[self].next_document > Len(calls[self].args.documents.items)
    /\ LET call == calls[self]
           data == call.args.data
           entry == IF data.type = "list"
                    THEN [arcname |-> call.file_basename \o <<".">>
                                          \o call.file_extension,
                          data |-> XmlText(call.doc)]
                    ELSE [arcname |-> PathTail(data.val),
                          data |-> UserBytes(data.val)]
           entries == Append(call.zip_entries, entry)
       IN  IF data.type = "str" /\ data.val \notin UserFiles
           THEN /\ calls' = [calls EXCEPT ![self] = Finish(@, "FileNotFoundError")]
                /\ files' = [files EXCEPT ![call.zip] =
                                Written(@, call.zip_entries, self)]
           ELSE /\ calls' = [calls EXCEPT ![self] =
                               [@ EXCEPT !.zip_entries = entries, !.pc = "encode"]]
                /\ files' = [files EXCEPT ![call.zip] = Written(@, entries, self)]
    /\ UNCHANGED <<tokens, issued, last, fs>>
    /\ UNCHANGED idleVars

\* open(import_zip_path, "rb") and b64encode of what is read: the path is
\* looked up again, and the read may fail
Encode(self) ==
    /\ calls[self].pc = "encode"
    /\ LET call == calls[self]
       IN  IF call.zip_path \notin DOMAIN fs
           THEN calls' = [calls EXCEPT ![self] = Finish(@, "FileNotFoundError")]
           ELSE \E ok \in BOOLEAN :
                   calls' = [calls EXCEPT ![self] =
                       IF ok
                       THEN [@ EXCEPT !.data_str = B64Encode(files[fs[call.zip_path]]),
                                      !.pc = "remove"]
                       ELSE Finish(@, "OSError")]
    /\ UNCHANGED <<tokens, issued, last, fs, files>>
    /\ UNCHANGED idleVars

\* os.remove(import_zip_path), whatever keep_zip_file is
Remove(self) ==
    /\ calls[self].pc = "remove"
    /\ LET call == calls[self]
       IN  IF call.zip_path \notin DOMAIN fs
           THEN /\ calls' = [calls EXCEPT ![self] = Finish(@, "FileNotFoundError")]
                /\ fs' = fs
           ELSE /\ calls' = [calls EXCEPT ![self] =
                               [@ EXCEPT !.file_extension = <<"z", "i", "p">>,
                                         !.pc = "auth"]]
                /\ fs' = [q \in DOMAIN fs \ {call.zip_path} |-> fs[q]]
    /\ UNCHANGED <<tokens, issued, last, files>>
    /\ UNCHANGED idleVars

\* documents is None: the xml or the data file is encoded as it is
EncodePlain(self) ==
    /\ calls[self].pc = "encode_plain"
    /\ LET call == calls[self]
           data == call.args.data
       IN  calls' = [calls EXCEPT ![self] =
               IF data.type = "list"
               THEN [@ EXCEPT !.data_str = B64Encode(XmlText(call.doc)),
                              !.pc = "auth"]
               ELSE IF data.val \in UserFiles
               THEN [@ EXCEPT !.data_str = B64Encode(UserBytes(data.val)),
                              !.pc = "auth"]
               ELSE Finish(@, "FileNotFoundError")]
    /\ UNCHANGED <<tokens, issued, last, fs, files>>
    /\ UNCHANGED idleVars

\* the Authentication argument: the entry code when a str is given
AuthArgument(authentication) ==
    IF authentication.type = "str"
    THEN [Entrycode |-> authentication.val] ELSE EmptyDict

\* authentication is None or an entry code: no token is asked for
AuthPlain(self) ==
    /\ calls[self].pc = "auth"
    /\ calls[self].args.authentication # CredentialObject
    /\ calls' = [calls EXCEPT ![self] = [@ EXCEPT !.pc = "service"]]
    /\ UNCHANGED <<tokens, issued, last, fs, files>>
    /\ UNCHANGED idleVars

\* authentication.get_token(self.hostname) when the cached token is reused
AuthCached(self) ==
    /\ calls[self].pc = "auth"
    /\ calls[self].args.authentication = CredentialObject
    /\ ~NeedsRetrieve(ServiceHostname, FALSE)
    /\ calls' = [calls EXCEPT ![self] =
                    [@ EXCEPT !.token = tokens[ServiceHostname].token,
                              !.pc = "service"]]
    /\ last' = Call("get_token", ServiceHostname, FALSE, FALSE, EmptyDict,
                    "returned", tokens[ServiceHostname].token)
    /\ UNCHANGED <<tokens, issued, fs, files>>
    /\ UNCHANGED idleVars

\* authentication.get_token(self.hostname) when it calls retrieve_token: one
\* POST to the token endpoint; an exception of retrieve_token ends the call
AuthRetrieve(self) ==
    /\ calls[self].pc = "auth"
    /\ calls[self].args.authentication = CredentialObject
    /\ NeedsRetrieve(ServiceHostname, FALSE)
    /\ \E response \in TokenResponses(issued + 1) :
        /\ tokens' = TokensAfterRetrieve(ServiceHostname, response, now)
        /\ last' = Call("get_token", ServiceHostname, FALSE, TRUE, response,
                        RetrieveOutcome(response),
                        IF RetrieveOutcome(response) = "returned"
                        THEN tokens'[ServiceHostname].token ELSE 0)
        /\ calls' = [calls EXCEPT ![self] =
                        IF RetrieveOutcome(response) = "returned"
                        THEN [@ EXCEPT !.net = RoundTrip(@, "token"),
                                       !.token = tokens'[ServiceHostname].token,
                                       !.pc = "service"]
                        ELSE Finish([@ EXCEPT !.net = RoundTrip(@, "token")],
                                    RetrieveOutcome(response))]
    /\ issued' = issued + 1
    /\ UNCHANGED <<fs, files>>
    /\ UNCHANGED idleVars

\* what goes to the service: the arguments of GetResult or Import and the
\* Authorization header
Request(call) ==
    IF call.op = "run_import"
    THEN [Operation |-> call.args.operation_name.val,
          Authentication |-> AuthArgument(call.args.authentication),
          Filename |-> call.file_basename \o <<".">> \o call.file_extension,
          Data |-> call.data_str,
          Bearer |-> call.token]
    ELSE [Operation |-> call.args.operation_name.val,
          Authentication |-> AuthArgument(call.args.authentication),
          Parameters |-> call.args.parameters,
          Bearer |-> call.token]

\* client.service.GetResult(...) or client.service.Import(...): the SOAP
\* call, which returns the response or fails in transport
CallService(self) ==
    /\ calls[self].pc = "service"
    /\ \E ok \in BOOLEAN :
        calls' = [calls EXCEPT ![self] =
                    Finish([@ EXCEPT !.net = RoundTrip(@, "soap"),
                                     !.sent = Request(calls[self])],
                           IF ok THEN "returned" ELSE "TransportError")]
    /\ UNCHANGED <<tokens, issued, last, fs, files>>
    /\ UNCHANGED idleVars

\* ClientCredential.retrieve_token(hostname) as the operation called
RetrieveTokenCall(self) ==
    /\ calls[self].pc = "token"
    /\ \E response \in TokenResponses(issued + 1) :
        /\ tokens' = TokensAfterRetrieve(calls[self].args.hostname, response, now)
        /\ last' = Call("retrieve_token", calls[self].args.hostname, FALSE, TRUE,
                        response, RetrieveOutcome(response), 0)
        /\ calls' = [calls EXCEPT ![self] =
                        Finish([@ EXCEPT !.net = RoundTrip(@, "token")],
                               RetrieveOutcome(response))]
    /\ issued' = issued + 1
    /\ UNCHANGED <<fs, files>>
    /\ UNCHANGED idleVars

\* one step of the call self
Step(self) ==
    \/ Validate(self)
    \/ MakeClient(self)
    \/ PrepareData(self)
    \/ ZipOpen(self)
    \/ ZipAddDocument(self)
    \/ ZipAddData(self)
    \/ Encode(self)
    \/ Remove(self)
    \/ EncodePlain(self)
    \/ AuthPlain(self)
    \/ AuthCached(self)
    \/ AuthRetrieve(self)
    \/ CallService(self)
    \/ RetrieveTokenCall(self)

NextDispatch == \E self \in Threads : Step(self)

SpecDispatch == InitDispatch /\ [][NextDispatch]_vars

(***************************************************************************)
(* RelaticsWebservices: two run_import calls in parallel                   *)
(***************************************************************************)
\* the file_name arguments of the two calls: both default, the same name, or
\* a name of their own
FileNamePairs ==
    { <<NoneValue, NoneValue>>,
      <<Str(<<"d", "/", "n", ".", "x">>), Str(<<"d", "/", "n", ".", "x">>)>>,
      <<Str(<<"d", "/", "n", ".", "x">>), Str(<<"e", "/", "m", ".", "x">>)>> }

\* the run_import call of thread t: its own data and its own attachment
ParallelArgs(t, data, file_name, authentication, keep_zip_file) ==
    [operation_name |-> Str(<<"o", "p">>),
     data |-> data,
     authentication |-> authentication,
     file_name |-> file_name,
     documents |-> List(<< IF t = 1 THEN DocumentA ELSE DocumentB >>),
     keep_zip_file |-> keep_zip_file]

\* two threads call run_import with documents at the same time, on one
\* RelaticsWebservices object and one ClientCredential with an empty cache
InitParallel ==
    /\ InitCred
    /\ InitParseIdle
    /\ fs = EmptyDict
    /\ files = << >>
    /\ \E names \in FileNamePairs, keep \in BOOLEAN,
          data1 \in { List(RowsOf("one")), Str(DataFile) },
          auth1 \in { NoneValue, CredentialObject },
          auth2 \in { NoneValue, CredentialObject } :
          calls = [t \in Threads |->
                      NewCall("run_import",
                              IF t = 1
                              THEN ParallelArgs(1, data1, names[1], auth1, keep)
                              ELSE ParallelArgs(2, List(RowsOf("two")), names[2],
                                                auth2, keep))]

\* one step of the run_import call of thread self
StepImport(self) ==
    \/ Validate(self)
    \/ MakeClient(self)
    \/ PrepareData(self)
    \/ ZipOpen(self)
    \/ ZipAddDocument(self)
    \/ ZipAddData(self)
    \/ Encode(self)
    \/ Remove(self)
    \/ AuthPlain(self)
    \/ AuthCached(self)
    \/ AuthRetrieve(self)
    \/ CallService(self)

NextParallel == \E self \in Threads : StepImport(self)

SpecParallel == InitParallel /\ [][NextParallel]_vars

(***************************************************************************)
(* Properties of ClientCredential                                          *)
(***************************************************************************)
\* whether the cache held an entry for the call's hostname when it started
HadEntry(call) == call.hostname \in DOMAIN call.tokens_before

\* expires_on - now of that entry when the call started
Remaining(call) ==
    call.tokens_before[call.hostname].expires_on - call.called_on

\* C1: get_token(hostname, force_refresh=false) never returns a cached token
\* without calling retrieve_token first when 300 seconds or less remain before
\* the entry's expires_on, an expiry that has already passed included.
C1_RefreshWithinMargin ==
    ( /\ last.op = "get_token"
      /\ ~last.force_refresh
      /\ HadEntry(last)
      /\ Remaining(last) <= SafetyMargin )
    => last.requested

\* C2: get_token(hostname, force_refresh=false) made while more than 300
\* seconds remain before the cached expires_on returns the cached token and
\* issues no token request, whatever expires_in the provider returned.
C2_ReuseOutsideMargin ==
    ( /\ last.op = "get_token"
      /\ ~last.force_refresh
      /\ HadEntry(last)
      /\ Remaining(last) > SafetyMargin )
    => ( /\ ~last.requested
         /\ last.outcome = "returned"
         /\ last.returned = last.tokens_before[last.hostname].token )

\* the cache a successful retrieve_token must leave
StoredOnSuccess(call) ==
    [h \in DOMAIN call.tokens_before \cup {call.hostname} |->
        IF h = call.hostname
        THEN [token |-> call.response["access_token"],
              expires_on |-> call.called_on + call.response["expires_in"]]
        ELSE call.tokens_before[h]]

\* C3: retrieve_token raises when the response holds an error field or lacks
\* access_token, and then the cache is unchanged for every hostname; only when
\* it returns is tokens[hostname] replaced by
\* {token = access_token, expires_on = request_time + expires_in}.
C3_RetrieveStoresOnlyOnSuccess ==
    last.requested =>
        /\ ( "error" \in DOMAIN last.response
             \/ "access_token" \notin DOMAIN last.response )
           => last.outcome \in {"RuntimeError", "KeyError"}
        /\ last.outcome \in {"RuntimeError", "KeyError"}
           => tokens = last.tokens_before
        /\ last.outcome = "returned" => tokens = StoredOnSuccess(last)
        /\ last.outcome \in {"RuntimeError", "KeyError", "returned"}

\* retrieve_token has raised on an error answer while the cache held an entry
\* for the hostname and one for another hostname
C3_Witness ==
    /\ last.op = "retrieve_token"
    /\ "error" \in DOMAIN last.response
    /\ last.outcome = "RuntimeError"
    /\ HadEntry(last)
    /\ DOMAIN last.tokens_before = Hostnames

(***************************************************************************)
(* Properties of the response parsers                                      *)
(***************************************************************************)
\* from_suds has returned a result
Parsed == pc = "done" /\ result.outcome = "returned"

\* C4: the returned result is falsy if and only if its has_error is true,
\* truthy if and only if has_error is false, and has_error is one of the two
\* booleans after parsing.
C4_FalsyIffHasError ==
    Parsed =>
        /\ result.value.has_error \in {Bool(TRUE), Bool(FALSE)}
        /\ ~ResultBool(result.value) <=> result.value.has_error = Bool(TRUE)
        /\ ResultBool(result.value) <=> result.value.has_error = Bool(FALSE)

\* C5: a response with a Report field and no Export field (with or without
\* Report.Documents as inline text) gives a result with has_error = false.
C5_ReportWithoutExportIsNoError ==
    ( /\ Parsed
      /\ HasAttr(raw, "Report")
      /\ ~HasAttr(raw, "Export") )
    => result.value.has_error = Bool(FALSE)

\* C6: for the absent response (None) from_suds returns a result with
\* has_error = true and error_msg equal to the empty string.
C6_NoneResponseHasEmptyMessage ==
    (pc = "done" /\ raw = NoneValue) =>
        /\ result.outcome = "returned"
        /\ result.value.has_error = Bool(TRUE)
        /\ result.value.error_msg = Str("")

\* C7: whenever the response holds an Export field the returned result has
\* has_error = true, whatever other fields the response holds.
C7_ExportFieldIsError ==
    (Parsed /\ HasAttr(raw, "Export")) => result.value.has_error = Bool(TRUE)

\* the Documents text of the response, if it has one, decodes to an archive
DocumentsDecode ==
    HasInlineDocuments(raw) =>
        GetAttr(GetAttr(raw, "Report"), "Documents").wellformed

\* C8: when the response holds an Export field, parsing returns a result
\* whose error_msg is the text of Export._Error if present and a serialization
\* of the response otherwise; parsing does not raise.
C8_ExportErrorMessage ==
    (pc = "done" /\ HasAttr(raw, "Export") /\ DocumentsDecode) =>
        /\ result.outcome = "returned"
        /\ result.value.error_msg =
              IF HasAttr(GetAttr(raw, "Export"), "_Error")
              THEN GetAttr(GetAttr(raw, "Export"), "_Error")
              ELSE Repr(raw)

\* the rows the claims speak of
RowNumbers == 0..9

\* the text "Processing row : <n>" with n written in five digits
RowText(n) ==
    ProcessingRow \o <<" ">> \o
    [i \in 1..5 |-> CHOOSE d \in Digits :
                        DigitValue(d) = (n \div (10 ^ (5 - i))) % 10]

\* msg is a Progress message whose text is "Processing row : <n>"
IsRowMessage(msg) ==
    msg._Result = "Progress" /\ \E n \in RowNumbers : msg.value = RowText(n)

\* the n of such a message
RowNumberOf(msg) == CHOOSE n \in RowNumbers : msg.value = RowText(n)

\* the Import.Message list of the response, empty when there is none
RawMessages ==
    IF HasAttr(raw, "Import")
    THEN IF HasAttr(GetAttr(raw, "Import"), "Message")
         THEN GetAttr(GetAttr(raw, "Import"), "Message") ELSE << >>
    ELSE << >>

\* the n of the latest "Processing row : <n>" Progress message among the
\* first k messages, 0 when there is none
RowOfLatest(msgs, k) ==
    LET rows == { j \in 1..k : IsRowMessage(msgs[j]) }
    IN  IF rows = {} THEN 0
        ELSE RowNumberOf(msgs[CHOOSE j \in rows : \A h \in rows : h <= j])

\* the rows recorded in the result's messages
RecordedRows == [i \in 1..Len(result.value.messages) |-> result.value.messages[i].row]

\* the list of the spec's example
ExampleMessages ==
    << MessageNode("Progress", RowText(1)), MessageNode("Success", <<"o", "k">>) >>

\* C9 as stated: a "Processing row : <n>" Progress message is itself recorded
\* with the row in effect before it (0 if there is no earlier one), and the
\* example list is recorded with rows 0 and 1.
C9_RowMessageCarriesEarlierRow ==
    (Parsed /\ HasAttr(raw, "Import")) =>
        /\ Len(result.value.messages) = Len(RawMessages)
        /\ \A i \in 1..Len(RawMessages) :
              IsRowMessage(RawMessages[i]) =>
                  result.value.messages[i].row = RowOfLatest(RawMessages, i - 1)
        /\ RawMessages = ExampleMessages => RecordedRows = <<0, 1>>

\* no Progress message holding "Processing row :" among messages from..to
NoRowChange(msgs, from, to) ==
    \A j \in from..to :
        ~(msgs[j]._Result = "Progress" /\ Contains(ProcessingRow, msgs[j].value))

\* C9 as amended: a "Processing row : <n>" Progress message is itself recorded
\* with row n, the messages after it carry row n up to the next Progress
\* message holding "Processing row :", the messages before the first such
\* message carry row 0, and the example list is recorded with rows 1 and 1.
C9_RowMessageCarriesOwnRow ==
    (Parsed /\ HasAttr(raw, "Import")) =>
        /\ Len(result.value.messages) = Len(RawMessages)
        /\ \A i \in 1..Len(RawMessages) :
              IsRowMessage(RawMessages[i]) =>
                  \A k \in i..Len(RawMessages) :
                      NoRowChange(RawMessages, i + 1, k) =>
                          result.value.messages[k].row = RowNumberOf(RawMessages[i])
        /\ \A k \in 1..Len(RawMessages) :
              NoRowChange(RawMessages, 1, k) => result.value.messages[k].row = 0
        /\ RawMessages = ExampleMessages => RecordedRows = <<1, 1>>

\* the example list has been parsed
C9_Witness ==
    /\ Parsed
    /\ RawMessages = ExampleMessages
    /\ RecordedRows = <<1, 1>>

\* msg is a Progress message whose text ends in "Processing row : <n>", n
\* written in five digits
IsRowProgress(msg) ==
    LET text == msg.value
        len == Len(text)
    IN  /\ msg._Result = "Progress"
        /\ len >= Len(ProcessingRow) + 6
        /\ SubSeq(text, len - Len(ProcessingRow) - 5, len - 5)
               = ProcessingRow \o <<" ">>
        /\ \A i \in (len - 4)..len : text[i] \in Digits

\* the n of such a message
RowOfProgress(msg) ==
    DecimalValue(SubSeq(msg.value, Len(msg.value) - 4, Len(msg.value)))

\* the n of the latest such message among the first k messages, 0 when there
\* is none
RowInEffect(msgs, k) ==
    LET rows == { j \in 1..k : IsRowProgress(msgs[j]) }
    IN  IF rows = {} THEN 0
        ELSE RowOfProgress(msgs[CHOOSE j \in rows : \A h \in rows : h <= j])

RawArchive == GetAttr(GetAttr(raw, "Report"), "Documents").entries

\* the retained tree is the response without Report.Documents, every other
\* field as it was
DocumentsFieldDropped ==
    /\ result.value.data = suds_response
    /\ suds_response.type = "Object"
    /\ DOMAIN suds_response.attrs = DOMAIN raw.attrs
    /\ \A a \in DOMAIN raw.attrs \ {"Report"} :
          suds_response.attrs[a] = raw.attrs[a]
    /\ GetAttr(suds_response, "Report").type = "Object"
    /\ DOMAIN GetAttr(suds_response, "Report").attrs =
          DOMAIN GetAttr(raw, "Report").attrs \ {"Documents"}
    /\ \A a \in DOMAIN GetAttr(suds_response, "Report").attrs :
          GetAttr(suds_response, "Report").attrs[a] = GetAttr(raw, "Report").attrs[a]

\* C10 as stated: the documents map has exactly one entry per archive entry,
\* the entry's filename mapped to the entry's bytes, and the retained tree has
\* lost Report.Documents and nothing else.
C10_OneDocumentPerArchiveEntry ==
    (Parsed /\ HasInlineDocuments(raw)) =>
        /\ Cardinality(DOMAIN result.value.documents) = Len(RawArchive)
        /\ \A j \in 1..Len(RawArchive) :
              /\ RawArchive[j].filename \in DOMAIN result.value.documents
              /\ result.value.documents[RawArchive[j].filename] = RawArchive[j].bytes
        /\ DocumentsFieldDropped

\* C10 as amended: the documents map has exactly one entry per distinct
\* filename of the archive, mapped to the bytes of the last archive entry of
\* that name, and the retained tree has lost Report.Documents and nothing else.
C10_OneDocumentPerFilename ==
    (Parsed /\ HasInlineDocuments(raw)) =>
        /\ DOMAIN result.value.documents =
              { RawArchive[j].filename : j \in 1..Len(RawArchive) }
        /\ \A j \in 1..Len(RawArchive) :
              (\A k \in (j + 1)..Len(RawArchive) :
                    RawArchive[k].filename # RawArchive[j].filename)
              => result.value.documents[RawArchive[j].filename] = RawArchive[j].bytes
        /\ DocumentsFieldDropped

\* an archive with two entries of one name and different bytes has been
\* read, from a Report that holds another field too
C10_Witness ==
    /\ Parsed
    /\ HasInlineDocuments(raw)
    /\ HasAttr(GetAttr(raw, "Report"), "Other")
    /\ Len(RawArchive) = 2
    /\ RawArchive[1].filename = RawArchive[2].filename
    /\ RawArchive[1].bytes # RawArchive[2].bytes
    /\ result.value.documents = (RawArchive[2].filename :> RawArchive[2].bytes)

(***************************************************************************)
(* Properties of RelaticsWebservices                                       *)
(***************************************************************************)
\* the call of thread t is a run_import
IsRunImport(t) == calls[t].op = "run_import"

\* the outcomes that are validation failures
ValidationFailures == {"ValueError", "TypeError"}

\* data is a file path whose extension is not a supported one
UnsupportedPath(args) ==
    /\ args.data.type = "str"
    /\ args.data.val # << >>
    /\ ExtensionOf(args.data.val) \notin SUPPORTED_EXTENSIONS

\* C11: run_import with a file path of an unsupported extension makes no
\* network call (WSDL fetch, token request, Import call) at any point, and
\* ends with a validation failure
C11_UnsupportedExtensionBeforeNetwork ==
    \A t \in Threads :
        IsRunImport(t) /\ UnsupportedPath(calls[t].args) =>
            /\ calls[t].net = << >>
            /\ calls[t].pc = "done" => calls[t].outcome \in ValidationFailures

\* operation_name is the empty string, or data is an empty list or an empty
\* string
EmptyArguments(args) ==
    \/ args.operation_name = Str(<< >>)
    \/ args.data = Str(<< >>)
    \/ args.data = List(<< >>)

\* C12: run_import with an empty operation_name or empty data is over after
\* its first step with a validation failure (ValueError), having built no
\* xml, created no zip file, encoded nothing and made no network call
C12_EmptyArgumentsFailFirst ==
    \A t \in Threads :
        IsRunImport(t) /\ EmptyArguments(calls[t].args)
                       /\ calls[t].pc # "validate" =>
            /\ calls[t].pc = "done"
            /\ calls[t].outcome = "ValueError"
            /\ calls[t].net = << >>
            /\ calls[t].doc = NoneValue
            /\ calls[t].zip_path = NoneValue
            /\ calls[t].data_str = NoneValue
            /\ fs = EmptyDict
            /\ files = << >>

\* a run_import with a valid operation name and an empty list as data has
\* ended with ValueError
C12_Witness ==
    \E t \in Threads :
        /\ IsRunImport(t)
        /\ calls[t].args.operation_name # Str(<< >>)
        /\ calls[t].args.data = List(<< >>)
        /\ calls[t].args.documents # NoneValue
        /\ calls[t].pc = "done"
        /\ calls[t].outcome = "ValueError"

\* C13: with documents and keep_zip_file = false, the temporary zip file of
\* run_import does not exist once the call has ended, whether it returned or
\* raised
C13_ZipRemovedWhenCallEnds ==
    \A t \in Threads :
        IsRunImport(t) /\ calls[t].args.documents # NoneValue
                       /\ ~calls[t].args.keep_zip_file
                       /\ calls[t].pc = "done" =>
            calls[t].zip_path \notin DOMAIN fs

\* C14: with documents and keep_zip_file = true, the temporary zip file is
\* still on disk after the payload is built and encoded
C14_ZipKeptWhenAsked ==
    \A t \in Threads :
        IsRunImport(t) /\ calls[t].args.documents # NoneValue
                       /\ calls[t].args.keep_zip_file
                       /\ calls[t].data_str # NoneValue
                       /\ calls[t].pc \in {"auth", "service", "done"} =>
            calls[t].zip_path \in DOMAIN fs

\* the number of round trips of one kind among those made
CountOf(kind, net) == Cardinality({ i \in 1..Len(net) : net[i] = kind })

\* C16 as stated: no call makes more than one blocking round trip
C16_AtMostOneRoundTrip ==
    \A t \in Threads : Len(calls[t].net) <= 1

\* C16: get_result and run_import make at most three round trips, in this
\* order and each at most once: the WSDL fetch, a token request (only with a
\* ClientCredential), the SOAP call; retrieve_token makes at most one, the
\* token request
C16_AtMostThreeRoundTrips ==
    \A t \in Threads :
        LET call == calls[t]
            net == call.net
        IN  /\ \A kind \in {"wsdl", "token", "soap"} : CountOf(kind, net) <= 1
            /\ \A i \in 1..Len(net) : net[i] \in {"wsdl", "token", "soap"}
            /\ \A i, j \in 1..Len(net) :
                   i < j => /\ net[j] # "wsdl"
                            /\ net[i] # "soap"
            /\ call.op = "retrieve_token" => CountOf("wsdl", net) = 0
                                             /\ CountOf("soap", net) = 0
            /\ call.op \in {"get_result", "run_import"}
               /\ call.args.authentication # CredentialObject =>
                   CountOf("token", net) = 0

\* a run_import has returned after the WSDL fetch, a token request and the
\* Import call
C16_Witness ==
    \E t \in Threads :
        /\ IsRunImport(t)
        /\ calls[t].pc = "done"
        /\ calls[t].outcome = "returned"
        /\ calls[t].net = <<"wsdl", "token", "soap">>


\* the archive entries that belong to a call: an entry under Documents/ for
\* each of its documents, then its data
OwnEntries(args) ==
    [i \in 1..Len(args.documents.items) |->
        [arcname |-> <<"D", "o", "c", "u", "m", "e", "n", "t", "s", "/">>
                     \o PathTail(args.documents.items[i]),
         data |-> UserBytes(args.documents.items[i])]]
    \o << IF args.data.type = "list"
          THEN [arcname |-> FileBasename(args.file_name) \o <<".", "x", "m", "l">>,
                data |-> XmlText(BuildXml(args.data.items))]
          ELSE [arcname |-> PathTail(args.data.val),
                data |-> UserBytes(args.data.val)] >>

\* C17: two run_import calls with documents that run in parallel do not
\* interfere: no call fails on a file it cannot find, the archive a call is
\* still using is at its path and written by that call only, and the payload
\* a call sends is the archive of exactly its own attachments and data
C17_ParallelImportsDoNotInterfere ==
    \A t \in Threads :
        IsRunImport(t) /\ calls[t].args.documents # NoneValue =>
            /\ calls[t].outcome # "FileNotFoundError"
            /\ calls[t].pc \in {"zip_documents", "encode", "remove"} =>
                  /\ calls[t].zip_path \in DOMAIN fs
                  /\ fs[calls[t].zip_path] = calls[t].zip
                  /\ files[calls[t].zip].writers \subseteq {t}
            /\ calls[t].sent # NoneValue =>
                  calls[t].sent.Data =
                      B64Encode([entries |-> OwnEntries(calls[t].args),
                                 writers |-> {t}])

====
